---- MODULE Spec2Model ----
(***************************************************************************)
(* Model of src/index.js: the two HTTP handlers getDashboardPrompt and     *)
(* getSummaryAnalysis.  Each handler validates the request, builds its     *)
(* prompt context, tries the model candidates in order (one awaited        *)
(* generateContent call per candidate), and answers with the first text    *)
(* obtained or with a canned fallback text.                                *)
(*                                                                         *)
(* A JavaScript string is modelled as a sequence of one-character strings  *)
(* when its characters matter (generated text), and as a sequence of       *)
(* segments when it is assembled from a template (fallback text).          *)
(***************************************************************************)
EXTENDS Integers, Sequences, FiniteSets, TLC

(* ------------------------------------------------------------------ *)
(* Bounds of the model                                                 *)
(* ------------------------------------------------------------------ *)

\* generated texts have up to WordLimit + MaxExtraWords words
MaxExtraWords == 2

\* prioritizedVirtues arrays have up to MaxVirtues entries
MaxVirtues == 2

(* ------------------------------------------------------------------ *)
(* Program constants                                                   *)
(* ------------------------------------------------------------------ *)

\* src/index.js:128-129  the 150 word ceiling of getDashboardPrompt
WordLimit == 150

\* src/index.js:50, 211  the scale the defect intensity is subtracted from
MaxScale == 10

\* src/index.js:36-42 and 199-205
modelNames ==
  << "gemini-2.5-flash-lite",
     "gemini-2.0-flash-lite",
     "gemini-1.5-flash-lite",
     "gemini-1.5-flash",
     "gemini-pro" >>

(* ------------------------------------------------------------------ *)
(* JavaScript values                                                   *)
(* ------------------------------------------------------------------ *)

\* the value undefined where a string is expected: a one-element sequence
\* that no character sequence equals (characters are one-character strings)
Undefined == << "undefined" >>

\* the empty string ''
EmptyString == << >>

\* !x is false for a string exactly when it is defined and not ''
Truthy(s) == s # Undefined /\ s # EmptyString

\* the characters the regular expression \s matches, among those modelled
IsWhitespace(c) == c \in {" ", "\n", "\t"}

(* ------------------------------------------------------------------ *)
(* String.prototype.split(/\s+/), Array.prototype.slice / join         *)
(* ------------------------------------------------------------------ *)

RECURSIVE SplitChars(_, _, _)
\* s[lo..hi] cut at every single whitespace character: the halves are cut
\* on their own and the piece that spans the middle is glued together
SplitChars(s, lo, hi) ==
  IF lo > hi THEN << << >> >>
  ELSE IF lo = hi
  THEN IF IsWhitespace(s[lo]) THEN << << >>, << >> >> ELSE << << s[lo] >> >>
  ELSE LET mid == (lo + hi) \div 2
           l == SplitChars(s, lo, mid)
           r == SplitChars(s, mid + 1, hi)
       IN  SubSeq(l, 1, Len(l) - 1) \o << l[Len(l)] \o r[1] >> \o Tail(r)

\* generatedText.split(/\s+/): the pieces between the maximal whitespace
\* runs.  Cutting at every whitespace character gives the same pieces plus
\* an empty piece inside every run of two or more; the piece before the
\* first run and the piece after the last run stay, empty or not (a leading
\* or trailing run leaves an empty piece at that end; '' gives [''])
SplitWhitespace(s) ==
  LET p == SplitChars(s, 1, Len(s))
      n == Len(p)
      indexed == [ k \in 1..n |-> [ i |-> k, piece |-> p[k] ] ]
      Kept(e) == e.i = 1 \/ e.i = n \/ e.piece # << >>
      kept == SelectSeq(indexed, Kept)
  IN  [ k \in 1..Len(kept) |-> kept[k].piece ]

\* words.slice(0, n)
Slice(words, n) == SubSeq(words, 1, IF Len(words) < n THEN Len(words) ELSE n)

RECURSIVE JoinRange(_, _, _, _)
\* pieces[lo], sep, ..., sep, pieces[hi]
JoinRange(pieces, lo, hi, sep) ==
  IF lo > hi THEN << >>
  ELSE IF lo = hi THEN pieces[lo]
  ELSE LET mid == (lo + hi) \div 2
       IN  JoinRange(pieces, lo, mid, sep) \o sep \o JoinRange(pieces, mid + 1, hi, sep)

\* pieces.join(sep)
Join(pieces, sep) == JoinRange(pieces, 1, Len(pieces), sep)

Ellipsis == << ".", ".", "." >>

\* a slip: the comparison is >= where the code has >
TruncateWordsAtLimit(generatedText) ==
  LET words == SplitWhitespace(generatedText)
  IN  IF Len(words) >= WordLimit
      THEN Join(Slice(words, WordLimit), << " " >>) \o Ellipsis
      ELSE generatedText

\* src/index.js:127-130
TruncateWords(generatedText) ==
  LET words == SplitWhitespace(generatedText)
  IN  IF Len(words) > WordLimit
      THEN Join(Slice(words, WordLimit), << " " >>) \o Ellipsis
      ELSE generatedText

(* ------------------------------------------------------------------ *)
(* Requests                                                            *)
(* ------------------------------------------------------------------ *)

VirtueNames == << "Honesty", "Patience", "Courage", "Humility" >>

\* one entry of prioritizedVirtues; defectIntensity is kept in tenths
VirtueEntry(i) ==
  [ isNull |-> FALSE, virtueId |-> i,
    virtue |-> VirtueNames[((i - 1) % Len(VirtueNames)) + 1],
    defectIntensity |-> 80 - 15 * ((i - 1) % 4) ]

\* a JSON null inside the array
NullEntry == [ isNull |-> TRUE, virtueId |-> 0, virtue |-> "", defectIntensity |-> 0 ]

Absent == [ kind |-> "absent", items |-> << >> ]
JsonNull == [ kind |-> "null", items |-> << >> ]
\* a value that is neither nullish nor an array (a string, a number, an object)
NonArray == [ kind |-> "nonArray", items |-> << >> ]
ArrayOf(items) == [ kind |-> "array", items |-> items ]

IsArray(v) == v.kind = "array"
IsNullish(v) == v.kind \in {"absent", "null"}

VirtueArrays ==
  { ArrayOf([ i \in 1..n |-> VirtueEntry(i) ]) : n \in 0..MaxVirtues }

PrioritizedVirtuesValues ==
  {Absent, JsonNull, NonArray, ArrayOf(<< NullEntry >>)} \cup VirtueArrays

AnalysesValues ==
  { Absent, NonArray, ArrayOf(<< >>),
    ArrayOf(<< [ virtue |-> "Honesty", analysis |-> "analysis-1" ] >>) }

\* stageProgress: the entries of the map, key "virtueId-stage" already split
StageProgressValues ==
  { Absent,
    ArrayOf(<< [ virtueId |-> 1, stage |-> "1", status |-> "completed" ],
               [ virtueId |-> 2, stage |-> "2", status |-> "in_progress" ],
               [ virtueId |-> 9, stage |-> "3", status |-> "not_started" ] >>) }

\* a body that is not an object: undefined, null, a string, a number
NoFields ==
  [ assessmentSummary |-> "", prioritizedVirtues |-> Absent,
    stageProgress |-> Absent, recentProgress |-> "",
    isFirstTime |-> "absent", analyses |-> Absent ]

BodyOfKind(k) == [ kind |-> k, fields |-> NoFields ]

NonObjectBodies == { BodyOfKind(k) : k \in {"undefined", "null", "string", "number"} }

\* the bodies sent to getDashboardPrompt ('' stands for an absent string field)
DashboardBodies ==
  NonObjectBodies \cup { BodyOfKind("array") } \cup
  { [ kind |-> "object",
      fields |-> [ assessmentSummary |-> o.a, prioritizedVirtues |-> pv,
                   stageProgress |-> o.s, recentProgress |-> o.r,
                   isFirstTime |-> ft, analyses |-> Absent ] ] :
      pv \in PrioritizedVirtuesValues,
      ft \in {"absent", "true", "false"},
      o \in [ a : {"", "summary"}, s : StageProgressValues, r : {"", "update"} ] }

\* the bodies sent to getSummaryAnalysis
SummaryBodies ==
  NonObjectBodies \cup { BodyOfKind("array") } \cup
  { [ kind |-> "object",
      fields |-> [ NoFields EXCEPT !.prioritizedVirtues = pv, !.analyses = an ] ] :
      pv \in PrioritizedVirtuesValues, an \in AnalysesValues }

\* src/index.js:23  !req.body || typeof req.body !== 'object'
\* (typeof null and typeof [] are 'object'; null is falsy)
BodyIsObject(b) == b.kind \in {"object", "array"}

(* ------------------------------------------------------------------ *)
(* Context builders                                                    *)
(* ------------------------------------------------------------------ *)

\* Number.prototype.toFixed(1) of a value kept in tenths
ToFixed1(tenths) == [ int |-> tenths \div 10, dec |-> tenths % 10 ]

\* src/index.js:49-50, 211  `${i + 1}. ${v.virtue} (Score: ${(10 - v.defectIntensity).toFixed(1)})`
VirtueLine(v, i) ==
  [ rank |-> i, virtue |-> v.virtue,
    score |-> ToFixed1(MaxScale * 10 - v.defectIntensity) ]

\* src/index.js:49-51, 53-59  the lines that .join('\n') puts together
Lines(ls) == [ lines |-> ls, placeholder |-> "" ]

\* src/index.js:51, 59, 61  the text that stands in for missing data
Placeholder(text) == [ lines |-> << >>, placeholder |-> text ]

\* reading v.virtue of a null entry raises a TypeError
MapThrows(items) == \E i \in 1..Len(items) : items[i].isNull

\* a slip: .map without the optional chaining raises on a missing array
VirtueListNoGuard(prioritizedVirtues) ==
  IF ~IsArray(prioritizedVirtues) \/ MapThrows(prioritizedVirtues.items)
  THEN [ threw |-> TRUE, value |-> Lines(<< >>) ]
  ELSE IF Len(prioritizedVirtues.items) = 0
  THEN [ threw |-> FALSE, value |-> Placeholder("No assessment data available") ]
  ELSE [ threw |-> FALSE,
         value |-> Lines([ i \in 1..Len(prioritizedVirtues.items) |->
                             VirtueLine(prioritizedVirtues.items[i], i) ]) ]

\* src/index.js:49-51  prioritizedVirtues?.map(...).join('\n') || '...'
\* [threw, value]: calling .map on a non-array, or on an array holding null, raises
VirtueList(prioritizedVirtues) ==
  IF IsNullish(prioritizedVirtues)
  THEN [ threw |-> FALSE, value |-> Placeholder("No assessment data available") ]
  ELSE IF ~IsArray(prioritizedVirtues) \/ MapThrows(prioritizedVirtues.items)
  THEN [ threw |-> TRUE, value |-> Lines(<< >>) ]
  ELSE IF Len(prioritizedVirtues.items) = 0
  THEN [ threw |-> FALSE, value |-> Placeholder("No assessment data available") ]
  ELSE [ threw |-> FALSE,
         value |-> Lines([ i \in 1..Len(prioritizedVirtues.items) |->
                             VirtueLine(prioritizedVirtues.items[i], i) ]) ]

\* src/index.js:57
StageName(stage) ==
  IF stage = "1" THEN "Dismantling" ELSE IF stage = "2" THEN "Building" ELSE "Practicing"

\* src/index.js:56, 58  prioritizedVirtues?.find(v => v.virtueId == virtueId)
VirtueOfId(prioritizedVirtues, virtueId) ==
  IF IsArray(prioritizedVirtues)
     /\ \E i \in 1..Len(prioritizedVirtues.items) :
          prioritizedVirtues.items[i].virtueId = virtueId
  THEN LET i == CHOOSE j \in 1..Len(prioritizedVirtues.items) :
                  /\ prioritizedVirtues.items[j].virtueId = virtueId
                  /\ \A k \in 1..(j - 1) : prioritizedVirtues.items[k].virtueId # virtueId
       IN  prioritizedVirtues.items[i].virtue
  ELSE "Unknown"

\* src/index.js:53-59
ProgressSummary(stageProgress, prioritizedVirtues) ==
  IF stageProgress.kind = "absent"
  THEN Placeholder("No progress data available")
  ELSE Lines([ i \in 1..Len(stageProgress.items) |->
           [ virtue |-> VirtueOfId(prioritizedVirtues, stageProgress.items[i].virtueId),
             stageName |-> StageName(stageProgress.items[i].stage),
             status |-> stageProgress.items[i].status ] ])

\* src/index.js:27-33  isFirstTime = false when the field is absent
IsFirstTime(fields) == fields.isFirstTime = "true"

\* src/index.js:84-118  the values the prompt template embeds
DashboardPromptOf(fields) ==
  [ assessmentSummary |->
      IF fields.assessmentSummary = "" THEN "Assessment completed"
      ELSE fields.assessmentSummary,
    virtueList |-> VirtueList(fields.prioritizedVirtues).value,
    progressSummary |-> ProgressSummary(fields.stageProgress, fields.prioritizedVirtues),
    recentUpdate |->
      IF fields.recentProgress = "" THEN "No recent updates" ELSE fields.recentProgress,
    isFirstTime |-> IsFirstTime(fields) ]

\* src/index.js:49-61  whether building the context raises (outer catch, 500)
DashboardContextThrows(fields) == VirtueList(fields.prioritizedVirtues).threw

\* a slip: analyses is not checked
SummaryInvalidNoAnalyses(b) ==
  \/ ~BodyIsObject(b)
  \/ ~IsArray(b.fields.prioritizedVirtues)

\* src/index.js:192  the request is rejected with 400
SummaryInvalid(b) ==
  \/ ~BodyIsObject(b)
  \/ ~IsArray(b.fields.analyses)
  \/ ~IsArray(b.fields.prioritizedVirtues)

\* src/index.js:211  prioritizedVirtues.map(...) on a validated array
SummaryContextThrows(fields) == MapThrows(fields.prioritizedVirtues.items)

\* src/index.js:211-212, 236-253
SummaryPromptOf(fields) ==
  [ priorityList |->
      [ i \in 1..Len(fields.prioritizedVirtues.items) |->
          VirtueLine(fields.prioritizedVirtues.items[i], i) ],
    combinedAnalyses |-> fields.analyses.items ]

NoPrompt == [ none |-> TRUE ]

(* ------------------------------------------------------------------ *)
(* Fallback texts                                                      *)
(* ------------------------------------------------------------------ *)

\* src/index.js:150  prioritizedVirtues?.[0]?.virtue || 'your priority virtue'
TopVirtue(prioritizedVirtues) ==
  IF IsArray(prioritizedVirtues) /\ Len(prioritizedVirtues.items) > 0
     /\ ~prioritizedVirtues.items[1].isNull
     /\ prioritizedVirtues.items[1].virtue # ""
  THEN prioritizedVirtues.items[1].virtue
  ELSE "your priority virtue"

\* src/index.js:151
DashboardFallback(fields) ==
  << "Welcome to your virtue development journey! " >> \o
  ( IF IsFirstTime(fields)
    THEN << "Start by working on ", TopVirtue(fields.prioritizedVirtues),
            " in the Dismantling stage to begin recognizing character defects." >>
    ELSE << "Continue your progress by focusing on the next stage of ",
            TopVirtue(fields.prioritizedVirtues), "." >> ) \o
  << " Click the stage buttons to begin your reflection." >>

SummaryFallbackHead ==
  "A full summary could not be generated at this time. Based on the data, the primary areas for development appear to be "

SummaryFallbackTail ==
  ". Focusing on the root causes of challenges in these areas is a recommended next step."

\* src/index.js:277  prioritizedVirtues.slice(0, 2).map(v => v.virtue).join(' and ')
TopTwoNames(prioritizedVirtues) ==
  LET top == Slice(prioritizedVirtues.items, 2)
  IN  Join([ i \in 1..Len(top) |-> << top[i].virtue >> ], << " and " >>)

\* src/index.js:277
SummaryFallback(fields) ==
  << SummaryFallbackHead >> \o TopTwoNames(fields.prioritizedVirtues) \o
  << SummaryFallbackTail >>

(* ------------------------------------------------------------------ *)
(* Outcomes of one generateContent call                                *)
(* ------------------------------------------------------------------ *)

\* the i-th word of a generated text
Word(i) ==
  IF i % 3 = 1 THEN << "a" >> ELSE IF i % 3 = 2 THEN << "b" >> ELSE << "a", "b" >>

\* lead, then n words separated by sep, then trail
MkText(lead, n, sep, trail) ==
  lead \o Join([ i \in 1..n |-> Word(i) ], sep) \o trail

\* the texts a model returns to a request
GeneratedTexts ==
  { MkText(e.lead, n, << " " >>, e.trail) :
      e \in { [ lead |-> << >>, trail |-> << >> ],
              [ lead |-> << " " >>, trail |-> << >> ],
              [ lead |-> << >>, trail |-> << "\n" >> ] },
      n \in {0, 2, WordLimit, WordLimit + 1} }

\* the outcomes of `await generativeModel.generateContent(prompt)`:
\*   throws        the call rejects (network error, safety block, ...)
\*   noCandidates  response.candidates is missing or empty
\*   noContent     candidates[0] has no content
\*   noParts       content has no parts, or an empty parts array
\*   noText        parts[0] has no text property
\*   text          parts[0].text is the string `text`
FailureShapes == {"throws", "noCandidates", "noContent", "noParts", "noText"}

Outcomes ==
  { [ shape |-> sh, text |-> Undefined ] : sh \in FailureShapes } \cup
  { [ shape |-> "text", text |-> t ] : t \in GeneratedTexts }

NoOutcome == [ shape |-> "none", text |-> Undefined ]

\* src/index.js:120-124  what a settled call delivered: a non-empty text,
\* the empty text, or no text at all (it threw, or the response lacks
\* candidates, content, parts or the text property)
Observed(o) ==
  IF o.shape # "text" THEN "noText"
  ELSE IF o.text = EmptyString THEN "emptyText" ELSE "text"

\* src/index.js:123, 258  response.candidates && response.candidates[0] && ...content
HasContent(o) == o.shape \in {"noParts", "noText", "text"}

\* a slip: a response without parts is taken as an empty text
DashboardAttemptLenient(o) ==
  IF o.shape = "throws" THEN [ caught |-> TRUE, error |-> "generateContent rejected", text |-> Undefined ]
  ELSE IF ~HasContent(o)
  THEN [ caught |-> TRUE, error |-> "Invalid response format from model", text |-> Undefined ]
  ELSE IF o.shape = "noParts"
  THEN [ caught |-> FALSE, error |-> "", text |-> EmptyString ]
  ELSE IF o.text = Undefined
  THEN [ caught |-> TRUE, error |-> "TypeError", text |-> Undefined ]
  ELSE [ caught |-> FALSE, error |-> "", text |-> TruncateWords(o.text) ]

\* src/index.js:120-144  one pass of the try block of getDashboardPrompt:
\* either an error reaches the inner catch, or generatedText is assigned
DashboardAttempt(o) ==
  IF o.shape = "throws"
  THEN [ caught |-> TRUE, error |-> "generateContent rejected", text |-> Undefined ]
  ELSE IF ~HasContent(o)
  THEN [ caught |-> TRUE, error |-> "Invalid response format from model", text |-> Undefined ]
  ELSE IF o.shape = "noParts"    \* content.parts[0] or parts[0].text raises
  THEN [ caught |-> TRUE, error |-> "TypeError", text |-> Undefined ]
  ELSE IF o.text = Undefined     \* undefined.split raises
  THEN [ caught |-> TRUE, error |-> "TypeError", text |-> Undefined ]
  ELSE [ caught |-> FALSE, error |-> "", text |-> TruncateWords(o.text) ]

\* a slip: the word limit is applied to the summary as well
SummaryAttemptTruncates(o) ==
  IF o.shape = "throws"
  THEN [ caught |-> TRUE, error |-> "generateContent rejected", text |-> Undefined ]
  ELSE IF ~HasContent(o)
  THEN [ caught |-> TRUE, error |-> "Invalid response format from summary model",
         text |-> Undefined ]
  ELSE IF o.shape = "noParts"
  THEN [ caught |-> TRUE, error |-> "TypeError", text |-> Undefined ]
  ELSE IF o.text = Undefined
  THEN [ caught |-> FALSE, error |-> "", text |-> Undefined ]
  ELSE [ caught |-> FALSE, error |-> "", text |-> TruncateWords(o.text) ]

\* src/index.js:255-271  one pass of the try block of getSummaryAnalysis
SummaryAttempt(o) ==
  IF o.shape = "throws"
  THEN [ caught |-> TRUE, error |-> "generateContent rejected", text |-> Undefined ]
  ELSE IF ~HasContent(o)
  THEN [ caught |-> TRUE, error |-> "Invalid response format from summary model",
         text |-> Undefined ]
  ELSE IF o.shape = "noParts"
  THEN [ caught |-> TRUE, error |-> "TypeError", text |-> Undefined ]
  ELSE [ caught |-> FALSE, error |-> "", text |-> o.text ]

(* ------------------------------------------------------------------ *)
(* State                                                               *)
(* ------------------------------------------------------------------ *)

VARIABLES
  handler,          \* the function invoked: "getDashboardPrompt" | "getSummaryAnalysis"
  req,              \* the request: [method, body]
  pc,               \* "idle" | "await" (suspended in generateContent) | "done"
  idx,              \* position in modelNames of the candidate being awaited
  prompt,           \* the prompt passed to generateContent
  promptText,       \* local of getDashboardPrompt
  summaryText,      \* local of getSummaryAnalysis
  lastError,        \* local of both handlers (null before any failure)
  successfulModel,  \* local of both handlers
  calls,            \* the models generateContent was called on, in call order
  results,          \* what each settled call delivered, in call order
  lastOutcome,      \* the outcome of the latest completed call
  res,              \* the response sent: [status, text, model, success, error]
  normInput,        \* normalizer check: the text given
  normOutput,       \* normalizer check: the text returned
  normAgain,        \* normalizer check: the text returned for normOutput
  normPasses,       \* normalizer check: how often the normalizer was applied
  reqs,             \* concurrent invocations: request -> [handler, body, pc, outcomes, res]
  frames            \* concurrent invocations: scope -> the locals declared in it

vars ==
  << handler, req, pc, idx, prompt, promptText, summaryText, lastError,
     successfulModel, calls, results, lastOutcome, res,
     normInput, normOutput, normAgain, normPasses, reqs, frames >>

concVars == << reqs, frames >>

normVars == << normInput, normOutput, normAgain, normPasses >>

requestVars ==
  << handler, req, pc, idx, prompt, promptText, summaryText, lastError,
     successfulModel, calls, results, lastOutcome, res >>

\* src/index.js:45, 208  let lastError = null
NoError == [ message |-> "null", attempt |-> 0 ]

\* src/index.js:140-141, 267-268  the Error object caught in the attempt on
\* the candidate at position i (every attempt raises an object of its own)
RaisedError(message, i) == [ message |-> message, attempt |-> i ]

NoRequest == [ method |-> "none", body |-> BodyOfKind("undefined") ]

NoResponse ==
  [ status |-> 0, text |-> Undefined, model |-> "", success |-> FALSE, error |-> "" ]

\* the invocations that are in progress at the same time
NumRequests == 2

Requests == 1..NumRequests

\* src/index.js:44-46, 207-209  the locals of an invocation as declared
\* (idx: the position of the for-of iteration, line 64, 215)
NoFrame ==
  [ idx |-> 0, text |-> EmptyString, lastError |-> NoError, successfulModel |-> "" ]

\* an invocation that has not started
NoInvocation ==
  [ handler |-> "none", body |-> BodyOfKind("undefined"), pc |-> "idle",
    outcomes |-> << >>, res |-> NoResponse ]

\* no request has arrived
Idle ==
  /\ reqs = [ r \in Requests |-> NoInvocation ]
  /\ frames = [ r \in Requests |-> NoFrame ]
  /\ handler = "none"
  /\ req = NoRequest
  /\ pc = "idle"
  /\ idx = 0
  /\ prompt = NoPrompt
  /\ promptText = EmptyString
  /\ summaryText = EmptyString
  /\ lastError = NoError
  /\ successfulModel = ""
  /\ calls = << >>
  /\ results = << >>
  /\ lastOutcome = NoOutcome
  /\ res = NoResponse

Init ==
  /\ Idle
  /\ normInput = EmptyString
  /\ normOutput = EmptyString
  /\ normAgain = EmptyString
  /\ normPasses = 0

(* ------------------------------------------------------------------ *)
(* Responses                                                           *)
(* ------------------------------------------------------------------ *)

\* src/index.js:17, 186  res.status(204).send('')
Response204 == [ NoResponse EXCEPT !.status = 204, !.text = EmptyString ]

\* src/index.js:24, 193
Response400(message) == [ NoResponse EXCEPT !.status = 400, !.error = message ]

\* src/index.js:160-166, 286-292
Response500 == [ NoResponse EXCEPT !.status = 500, !.error = "Internal server error" ]

\* a slip: the first candidate is reported, whichever candidate answered
ModelFieldFirst(text, model) == IF model = "" THEN "fallback" ELSE modelNames[1]

\* src/index.js:156, 282  successfulModel || 'fallback'
ModelField(text, model) == IF model = "" THEN "fallback" ELSE model

\* src/index.js:147-158, 274-284  the text variable after the loop, the
\* fallback text of the request: [text, response]
Finish(text, model, fallback) ==
  LET final == IF Truthy(text) THEN text ELSE fallback
  IN  [ text |-> final,
        response |-> [ status |-> 200, text |-> final,
                       model |-> ModelField(text, model),
                       success |-> TRUE, error |-> "" ] ]

(* ------------------------------------------------------------------ *)
(* The candidate loop                                                  *)
(* ------------------------------------------------------------------ *)

Methods == {"POST", "OPTIONS"}

\* a slip: the iteration steps over a candidate
NextCandidateSkips(i) == i + 2

\* a slip: the iteration starts over after the last candidate
NextCandidateWraps(i) == (i % Len(modelNames)) + 1

\* src/index.js:64, 215  for (const modelName of modelNames): the position
\* the iteration moves to after the candidate at position i
NextCandidate(i) == i + 1

\* the iteration is over after the candidate at position i
Exhausted(i) == NextCandidate(i) > Len(modelNames)

\* a slip: the calls on all remaining candidates are started at once
CallModelFanOut(i) ==
  /\ pc' = "await"
  /\ idx' = i
  /\ calls' = calls \o SubSeq(modelNames, i, Len(modelNames))

\* src/index.js:64-120, 215-255  the loop body up to the await: the handler
\* suspends in generateContent on the candidate at position i
CallModel(i) ==
  /\ pc' = "await"
  /\ idx' = i
  /\ calls' = Append(calls, modelNames[i])

\* the handler sends r and returns
Send(r) ==
  /\ pc' = "done"
  /\ res' = r

(* ------------------------------------------------------------------ *)
(* getDashboardPrompt                                                  *)
(* ------------------------------------------------------------------ *)

\* src/index.js:10-120  from the invocation to the first await, or to the
\* response when the request is answered without a model
DashboardReceive ==
  /\ pc = "idle"
  /\ \E m \in Methods, b \in DashboardBodies :
       /\ handler' = "getDashboardPrompt"
       /\ req' = [ method |-> m, body |-> b ]
       /\ IF m = "OPTIONS"
          THEN /\ Send(Response204)
               /\ UNCHANGED << idx, calls, prompt >>
          ELSE IF ~BodyIsObject(b)
          THEN /\ Send(Response400("Invalid request body"))
               /\ UNCHANGED << idx, calls, prompt >>
          ELSE IF DashboardContextThrows(b.fields)
          THEN /\ Send(Response500)
               /\ UNCHANGED << idx, calls, prompt >>
          ELSE /\ prompt' = DashboardPromptOf(b.fields)
               /\ CallModel(1)
               /\ UNCHANGED res
  /\ UNCHANGED << promptText, summaryText, lastError, successfulModel,
                  results, lastOutcome, normVars, concVars >>

\* src/index.js:120-158  generateContent settles with outcome o: the rest of
\* the loop body, then either the next candidate's call or the response
DashboardResume ==
  /\ pc = "await"
  /\ handler = "getDashboardPrompt"
  /\ \E o \in Outcomes :
       LET a == DashboardAttempt(o)
           fallback == DashboardFallback(req.body.fields)
       IN  /\ lastOutcome' = o
           /\ results' = Append(results, Observed(o))
           /\ IF a.caught
              THEN /\ lastError' = RaisedError(a.error, idx)
                   /\ UNCHANGED successfulModel
                   /\ IF Exhausted(idx)
                      THEN LET fin == Finish(promptText, successfulModel, fallback)
                           IN  /\ promptText' = fin.text
                               /\ Send(fin.response)
                               /\ UNCHANGED << idx, calls >>
                      ELSE /\ CallModel(NextCandidate(idx))
                           /\ UNCHANGED << promptText, res >>
              ELSE LET fin == Finish(a.text, modelNames[idx], fallback)
                   IN  /\ successfulModel' = modelNames[idx]
                       /\ promptText' = fin.text
                       /\ Send(fin.response)
                       /\ UNCHANGED << lastError, idx, calls >>
  /\ UNCHANGED << handler, req, prompt, summaryText, normVars, concVars >>

(* ------------------------------------------------------------------ *)
(* getSummaryAnalysis                                                  *)
(* ------------------------------------------------------------------ *)

\* src/index.js:179-255
SummaryReceive ==
  /\ pc = "idle"
  /\ \E m \in Methods, b \in SummaryBodies :
       /\ handler' = "getSummaryAnalysis"
       /\ req' = [ method |-> m, body |-> b ]
       /\ IF m = "OPTIONS"
          THEN /\ Send(Response204)
               /\ UNCHANGED << idx, calls, prompt >>
          ELSE IF SummaryInvalid(b)
          THEN /\ Send(Response400("Invalid request body: Expected analyses and prioritizedVirtues arrays."))
               /\ UNCHANGED << idx, calls, prompt >>
          ELSE IF SummaryContextThrows(b.fields)
          THEN /\ Send(Response500)
               /\ UNCHANGED << idx, calls, prompt >>
          ELSE /\ prompt' = SummaryPromptOf(b.fields)
               /\ CallModel(1)
               /\ UNCHANGED res
  /\ UNCHANGED << promptText, summaryText, lastError, successfulModel,
                  results, lastOutcome, normVars, concVars >>

\* src/index.js:255-284
SummaryResume ==
  /\ pc = "await"
  /\ handler = "getSummaryAnalysis"
  /\ \E o \in Outcomes :
       LET a == SummaryAttempt(o)
           fallback == SummaryFallback(req.body.fields)
       IN  /\ lastOutcome' = o
           /\ results' = Append(results, Observed(o))
           /\ IF a.caught
              THEN /\ lastError' = RaisedError(a.error, idx)
                   /\ UNCHANGED successfulModel
                   /\ IF Exhausted(idx)
                      THEN LET fin == Finish(summaryText, successfulModel, fallback)
                           IN  /\ summaryText' = fin.text
                               /\ Send(fin.response)
                               /\ UNCHANGED << idx, calls >>
                      ELSE /\ CallModel(NextCandidate(idx))
                           /\ UNCHANGED << summaryText, res >>
              ELSE LET fin == Finish(a.text, modelNames[idx], fallback)
                   IN  /\ successfulModel' = modelNames[idx]
                       /\ summaryText' = fin.text
                       /\ Send(fin.response)
                       /\ UNCHANGED << lastError, idx, calls >>
  /\ UNCHANGED << handler, req, prompt, promptText, normVars, concVars >>

Next ==
  \/ DashboardReceive
  \/ DashboardResume
  \/ SummaryReceive
  \/ SummaryResume

Spec == Init /\ [][Next]_vars

\* src/index.js:120, 255  `await generativeModel.generateContent(prompt)`:
\* a call that settles (resolves or rejects) resumes the handler; the event
\* loop runs a continuation whose promise has settled
SpecLive ==
  /\ Spec
  /\ WF_vars(DashboardResume)
  /\ WF_vars(SummaryResume)

(* ------------------------------------------------------------------ *)
(* The word limit on its own (src/index.js:126-130)                    *)
(* ------------------------------------------------------------------ *)

\* generated texts of every word count up to WordLimit + MaxExtraWords, with
\* and without whitespace at either end, words one or two whitespace apart
TextFamily ==
  { MkText(lead, n, sep, trail) :
      lead \in { << >>, << " " >> },
      n \in 0..(WordLimit + MaxExtraWords),
      sep \in { << " " >>, << " ", "\n" >> },
      trail \in { << >>, << "\t" >> } }

InitNorm ==
  /\ Idle
  /\ normInput \in TextFamily
  /\ normOutput = EmptyString
  /\ normAgain = EmptyString
  /\ normPasses = 0

\* the truncation step applied to a generated text
NormalizeOnce ==
  /\ normPasses = 0
  /\ normOutput' = TruncateWords(normInput)
  /\ normPasses' = 1
  /\ UNCHANGED << requestVars, concVars, normInput, normAgain >>

\* the truncation step applied to its own result
NormalizeAgain ==
  /\ normPasses = 1
  /\ normAgain' = TruncateWords(normOutput)
  /\ normPasses' = 2
  /\ UNCHANGED << requestVars, concVars, normInput, normOutput >>

NextNorm ==
  \/ NormalizeOnce
  \/ NormalizeAgain

SpecNorm == InitNorm /\ [][NextNorm]_vars

(* ------------------------------------------------------------------ *)
(* Invocations in progress at the same time                            *)
(* ------------------------------------------------------------------ *)

\* the requests that arrive while others are in progress
ConcInvocations ==
  { [ handler |-> "getDashboardPrompt",
      body |-> [ kind |-> "object",
                 fields |-> [ NoFields EXCEPT
                                !.prioritizedVirtues = ArrayOf(<< VirtueEntry(1) >>),
                                !.isFirstTime = "true" ] ] ],
    [ handler |-> "getDashboardPrompt", body |-> BodyOfKind("string") ],
    [ handler |-> "getSummaryAnalysis",
      body |-> [ kind |-> "object",
                 fields |-> [ NoFields EXCEPT
                                !.prioritizedVirtues =
                                  ArrayOf(<< VirtueEntry(1), VirtueEntry(2) >>),
                                !.analyses =
                                  ArrayOf(<< [ virtue |-> "Honesty",
                                               analysis |-> "analysis-1" ] >>) ] ] ] }

\* the outcomes of their generation calls: a rejection, the empty text, a text
ConcOutcomes ==
  { [ shape |-> "throws", text |-> Undefined ],
    [ shape |-> "text", text |-> EmptyString ],
    [ shape |-> "text", text |-> MkText(<< >>, 2, << " " >>, << >>) ] }

\* a slip: the locals are declared at module level, one copy for all invocations
ScopeShared(r) == 1

\* src/index.js:44-46, 207-209  `let` inside the handler: every invocation
\* of the handler has bindings of its own
Scope(r) == r

\* src/index.js:10-120, 179-255  invocation r runs from its start to the
\* first await, or to the response sent before it
ConcReceive(r) ==
  /\ reqs[r].pc = "idle"
  /\ \E inv \in ConcInvocations :
       LET b == inv.body
           dash == inv.handler = "getDashboardPrompt"
           started == [ NoInvocation EXCEPT !.handler = inv.handler, !.body = b ]
           Answer(response) ==
             /\ reqs' = [ reqs EXCEPT ![r] =
                            [ started EXCEPT !.pc = "done", !.res = response ] ]
             /\ UNCHANGED frames
       IN  IF dash /\ ~BodyIsObject(b)
           THEN Answer(Response400("Invalid request body"))
           ELSE IF ~dash /\ SummaryInvalid(b)
           THEN Answer(Response400("Invalid request body: Expected analyses and prioritizedVirtues arrays."))
           ELSE IF ( IF dash THEN DashboardContextThrows(b.fields)
                             ELSE SummaryContextThrows(b.fields) )
           THEN Answer(Response500)
           ELSE /\ frames' = [ frames EXCEPT ![Scope(r)] = [ NoFrame EXCEPT !.idx = 1 ] ]
                /\ reqs' = [ reqs EXCEPT ![r] = [ started EXCEPT !.pc = "await" ] ]
  /\ UNCHANGED << requestVars, normVars >>

\* src/index.js:120-158, 255-284  the generation call of invocation r settles
\* with outcome o: the rest of the loop body, then the next call or the response
ConcResume(r) ==
  /\ reqs[r].pc = "await"
  /\ \E o \in ConcOutcomes :
       LET me == reqs[r]
           f == frames[Scope(r)]
           dash == me.handler = "getDashboardPrompt"
           a == IF dash THEN DashboardAttempt(o) ELSE SummaryAttempt(o)
           fallback == IF dash THEN DashboardFallback(me.body.fields)
                               ELSE SummaryFallback(me.body.fields)
           settled == [ me EXCEPT !.outcomes = Append(@, o) ]
       IN  IF a.caught
           THEN LET g == [ f EXCEPT !.lastError = RaisedError(a.error, f.idx) ]
                IN  IF Exhausted(f.idx)
                    THEN LET fin == Finish(g.text, g.successfulModel, fallback)
                         IN  /\ frames' = [ frames EXCEPT ![Scope(r)] =
                                              [ g EXCEPT !.text = fin.text ] ]
                             /\ reqs' = [ reqs EXCEPT ![r] =
                                            [ settled EXCEPT !.pc = "done",
                                                             !.res = fin.response ] ]
                    ELSE /\ frames' = [ frames EXCEPT ![Scope(r)] =
                                          [ g EXCEPT !.idx = NextCandidate(f.idx) ] ]
                         /\ reqs' = [ reqs EXCEPT ![r] = settled ]
           ELSE LET fin == Finish(a.text, modelNames[f.idx], fallback)
                IN  /\ frames' = [ frames EXCEPT ![Scope(r)] =
                                     [ f EXCEPT !.successfulModel = modelNames[f.idx],
                                                !.text = fin.text ] ]
                    /\ reqs' = [ reqs EXCEPT ![r] =
                                   [ settled EXCEPT !.pc = "done", !.res = fin.response ] ]
  /\ UNCHANGED << requestVars, normVars >>

\* invocations are started and resumed in any order
NextConc ==
  \/ \E r \in Requests : ConcReceive(r)
  \/ \E r \in Requests : ConcResume(r)

SpecConc == Init /\ [][NextConc]_vars

(* ------------------------------------------------------------------ *)
(* Properties                                                          *)
(* ------------------------------------------------------------------ *)

\* the candidate order the specification states
StatedOrder ==
  << "gemini-2.5-flash-lite", "gemini-2.0-flash-lite", "gemini-1.5-flash-lite",
     "gemini-1.5-flash", "gemini-pro" >>

Dashboard == handler = "getDashboardPrompt"
Summary == handler = "getSummaryAnalysis"

\* a 200 response has been sent
Answered200 == pc = "done" /\ res.status = 200

\* the deterministic fallback text of the request in hand
FallbackOfRequest ==
  IF Dashboard THEN DashboardFallback(req.body.fields)
  ELSE SummaryFallback(req.body.fields)

\* the generation capability's contract: a response with non-empty text is a
\* success, any other shape or a thrown error is a failure
Failed(r) == r # "text"

\* n calls were made and have settled, each one with a failure
AllFailed(n) ==
  /\ Len(results) = n
  /\ \A k \in 1..n : Failed(results[k])

\* the latest response had candidates[0].content, but its text is '' or absent
EmptyOrAbsentText(o) ==
  \/ o.shape = "noText"
  \/ o.shape = "text" /\ o.text = EmptyString

\* C1: in every 200 response the text is either the text a model produced or
\* the fallback text, and the model field names that source: the candidate
\* that produced the text, or "fallback" exactly when the text is the
\* fallback text; also when a model returned an empty or missing text.
C1_ModelNamesSource ==
  Answered200 =>
    \/ /\ res.text = FallbackOfRequest
       /\ res.model = "fallback"
    \/ /\ res.text # FallbackOfRequest
       /\ lastOutcome.shape = "text"
       /\ res.text = (IF Dashboard THEN TruncateWords(lastOutcome.text)
                      ELSE lastOutcome.text)
       /\ Len(calls) \in 1..Len(StatedOrder)
       /\ res.model = StatedOrder[Len(calls)]

\* C2: the k-th call targets the k-th candidate of the stated order, none is
\* skipped, repeated or reordered, and a candidate is called only after every
\* candidate before it was called and failed.
C2_StrictOrder ==
  /\ Len(calls) <= Len(StatedOrder)
  /\ \A k \in 1..Len(calls) : calls[k] = StatedOrder[k]
  /\ Len(results) <= Len(calls)
  /\ Len(calls) <= Len(results) + 1
  /\ \A k \in 1..(Len(calls) - 1) : Failed(results[k])

C2_Witness ==
  /\ pc = "await"
  /\ Len(calls) = Len(StatedOrder)
  /\ AllFailed(Len(StatedOrder) - 1)

\* C3: once a candidate has returned a valid response (non-empty text), no
\* later candidate is called in the request, and the response reports that
\* candidate's identifier.
C3_FirstSuccessWins ==
  \A k \in 1..Len(results) :
    results[k] = "text" =>
      /\ Len(calls) = k
      /\ Answered200
      /\ res.model = StatedOrder[k]
      /\ res.text # FallbackOfRequest

C3_Witness ==
  /\ results = << "noText", "noText", "text" >>
  /\ Len(calls) = 3
  /\ res.model = "gemini-1.5-flash-lite"

\* C4: a response whose candidates[0].content exists but whose text is empty
\* or absent is a failure: while candidates remain, the next one is called.
C4_EmptyTextIsFailure ==
  (EmptyOrAbsentText(lastOutcome) /\ Len(results) < Len(StatedOrder)) =>
    /\ pc = "await"
    /\ Len(calls) = Len(results) + 1

\* C5: when all five candidates have failed in a validated request, the
\* response is 200, success = true, model = "fallback", with the fallback
\* text; never a 500.
C5_ExhaustionIsFallback ==
  AllFailed(Len(StatedOrder)) =>
    /\ Answered200
    /\ res.success
    /\ res.model = "fallback"
    /\ res.text = FallbackOfRequest

\* C6: a failed attempt (the call throws, candidates missing, content
\* missing, parts missing) is absorbed in the loop: no 500 is sent, and
\* while candidates remain the next one is called.
C6_FailureAbsorbed ==
  lastOutcome.shape \in {"throws", "noCandidates", "noContent", "noParts"} =>
    /\ res.status # 500
    /\ Failed(results[Len(results)])
    /\ IF Len(results) < Len(StatedOrder)
       THEN /\ pc = "await"
            /\ res = NoResponse
            /\ Len(calls) = Len(results) + 1
            /\ calls[Len(calls)] = StatedOrder[Len(results) + 1]
       ELSE Answered200

C6_Witness ==
  /\ lastOutcome.shape = "noParts"
  /\ Len(results) = 2
  /\ pc = "await"
  /\ calls[Len(calls)] = "gemini-1.5-flash-lite"

\* the words of a text: its maximal runs of non-whitespace characters
WordsOf(t) ==
  LET NonEmpty(w) == w # << >>
  IN  SelectSeq(SplitChars(t, 1, Len(t)), NonEmpty)

\* the text the stated word limit returns for t
StatedNormalized(t) ==
  IF Len(WordsOf(t)) > 150
  THEN Join(SubSeq(WordsOf(t), 1, 150), << " " >>) \o << ".", ".", "." >>
  ELSE t

\* C7: on getDashboardPrompt, a generated text of more than 150 words (maximal
\* runs of non-whitespace) is returned as its first 150 words followed by
\* "...", and a text of at most 150 words is returned unchanged; also for a
\* text that starts or ends with whitespace.
C7_WordLimit ==
  (Dashboard /\ Answered200 /\ results[Len(results)] = "text") =>
    res.text = StatedNormalized(lastOutcome.text)

C9_ValidationStopsPipeline ==
  LET b == req.body
      rejected ==
        \/ /\ Summary
           /\ \/ b.kind \in {"undefined", "null", "string", "number"}
              \/ b.fields.analyses.kind # "array"
              \/ b.fields.prioritizedVirtues.kind # "array"
        \/ /\ Dashboard
           /\ b.kind \in {"undefined", "null", "string", "number"}
  IN  (req.method = "POST" /\ rejected) =>
        /\ pc = "done"
        /\ res.status = 400
        /\ res.error # ""
        /\ calls = << >>
        /\ results = << >>

C9_Witness ==
  /\ Summary
  /\ req.method = "POST"
  /\ req.body.kind = "object"
  /\ req.body.fields.analyses.kind = "nonArray"
  /\ req.body.fields.prioritizedVirtues.kind = "array"
  /\ res.status = 400

\* the part of a fallback text that stands where the virtue names go
NameSlot(text) ==
  IF Dashboard THEN << text[3] >> ELSE SubSeq(text, 2, Len(text) - 1)

\* C10: on both endpoints, when every model fails and prioritizedVirtues is
\* empty, the response is 200 and the fallback text holds a placeholder
\* phrase where the virtue names would stand.
C10_FallbackNamesSomething ==
  ( /\ pc = "done"
    /\ AllFailed(Len(StatedOrder))
    /\ req.body.fields.prioritizedVirtues = ArrayOf(<< >>) ) =>
      /\ res.status = 200
      /\ res.text = FallbackOfRequest
      /\ NameSlot(res.text) # << >>
      /\ \A i \in 1..Len(NameSlot(res.text)) : NameSlot(res.text)[i] # ""

\* the first entry of prioritizedVirtues has a name
HasTopVirtue(fields) ==
  /\ fields.prioritizedVirtues.kind = "array"
  /\ Len(fields.prioritizedVirtues.items) >= 1

\* C11: on getDashboardPrompt, when all models fail, the text depends on the
\* request alone: it names the first entry of prioritizedVirtues and is the
\* first-time template, which mentions the Dismantling stage, exactly when
\* isFirstTime is true, the continue-your-progress template otherwise; and
\* model = "fallback".
C11_DashboardFallback ==
  (Dashboard /\ pc = "done" /\ AllFailed(Len(StatedOrder))) =>
    LET f == req.body.fields
        name == IF HasTopVirtue(f) THEN f.prioritizedVirtues.items[1].virtue
                ELSE res.text[3]
    IN  /\ res.status = 200
        /\ res.model = "fallback"
        /\ res.text =
             IF f.isFirstTime = "true"
             THEN << "Welcome to your virtue development journey! ",
                     "Start by working on ", name,
                     " in the Dismantling stage to begin recognizing character defects.",
                     " Click the stage buttons to begin your reflection." >>
             ELSE << "Welcome to your virtue development journey! ",
                     "Continue your progress by focusing on the next stage of ", name,
                     ".", " Click the stage buttons to begin your reflection." >>

\* C12: on getSummaryAnalysis, when all models fail, the summary depends on
\* the request alone and names the first two entries of prioritizedVirtues
\* (both names when the list has two or more); and model = "fallback".
C12_SummaryFallback ==
  (Summary /\ pc = "done" /\ AllFailed(Len(StatedOrder))) =>
    LET items == req.body.fields.prioritizedVirtues.items
        names == IF Len(items) >= 2
                 THEN << items[1].virtue, " and ", items[2].virtue >>
                 ELSE IF Len(items) = 1 THEN << items[1].virtue >>
                 ELSE SubSeq(res.text, 2, Len(res.text) - 1)
    IN  /\ res.status = 200
        /\ res.model = "fallback"
        /\ res.text = << SummaryFallbackHead >> \o names \o << SummaryFallbackTail >>

\* C13: within a request at most one generateContent call is in flight; the
\* call on the next candidate starts only after the previous call has
\* settled with a failure; the candidate whose text is used is the first one
\* in order that delivered a text, and no call follows it.
C13_OneCallInFlight ==
  LET inFlight == Len(calls) - Len(results)
  IN  /\ inFlight \in {0, 1}
      /\ (inFlight = 1) <=> (pc = "await")
      /\ \A k \in 2..Len(calls) :
           /\ k - 1 <= Len(results)
           /\ Failed(results[k - 1])
      /\ \A k \in 1..Len(results) :
           results[k] = "text" =>
             /\ \A j \in 1..(k - 1) : Failed(results[j])
             /\ Len(calls) = k
             /\ res.model = StatedOrder[k]

C13_Witness ==
  /\ pc = "await"
  /\ Len(calls) = 3
  /\ Len(results) = 2
  /\ idx = 3

\* C15: the recorded error is always the error of the latest failed attempt:
\* each failed attempt overwrites it with its own error and nothing else
\* resets it, so on total exhaustion it is the fifth candidate's error.
C15_LastErrorIsLatest ==
  LET failedAttempts == { k \in 1..Len(results) : Failed(results[k]) }
  IN  IF failedAttempts = {}
      THEN lastError = NoError
      ELSE /\ lastError # NoError
           /\ \A k \in failedAttempts : k <= lastError.attempt
           /\ lastError.attempt \in failedAttempts

\* C16: getSummaryAnalysis returns a generated text as it is, whatever its
\* word count, while every generated text getDashboardPrompt returns has at
\* most 150 whitespace-separated words.
C16_TruncationAsymmetry ==
  (Answered200 /\ results[Len(results)] = "text") =>
    /\ Summary => res.text = lastOutcome.text
    /\ Dashboard => Len(WordsOf(res.text)) <= 150

\* a summary of more than 150 words has been returned
C16_Witness ==
  /\ Summary
  /\ Answered200
  /\ results[Len(results)] = "text"
  /\ Len(WordsOf(res.text)) > 150


\* C17: for a POST to getDashboardPrompt whose body is an object in which any
\* of assessmentSummary, prioritizedVirtues, stageProgress, recentProgress and
\* isFirstTime is missing (or prioritizedVirtues is an empty array), building
\* the context does not raise: the prompt carries the placeholder of every
\* missing field, the first generation call is made, no 500 is sent and the
\* response, once sent, is a 200.
C17_ContextBuilderTotal ==
  ( /\ Dashboard
    /\ req.method = "POST"
    /\ req.body.kind = "object"
    /\ req.body.fields.prioritizedVirtues \in {Absent} \cup VirtueArrays ) =>
      LET f == req.body.fields
      IN  /\ res.status # 500
          /\ Len(calls) >= 1
          /\ calls[1] = StatedOrder[1]
          /\ prompt # NoPrompt
          /\ f.assessmentSummary = "" => prompt.assessmentSummary = "Assessment completed"
          /\ (f.prioritizedVirtues = Absent \/ f.prioritizedVirtues = ArrayOf(<< >>))
               => prompt.virtueList = Placeholder("No assessment data available")
          /\ f.stageProgress = Absent
               => prompt.progressSummary = Placeholder("No progress data available")
          /\ f.recentProgress = "" => prompt.recentUpdate = "No recent updates"
          /\ f.isFirstTime = "absent" => prompt.isFirstTime = FALSE
          /\ pc = "done" => res.status = 200

\* a body with none of the five fields has been answered
C17_Witness ==
  /\ Dashboard
  /\ req.method = "POST"
  /\ req.body = [ kind |-> "object", fields |-> NoFields ]
  /\ pc = "done"
  /\ res.status = 200
  /\ prompt.virtueList = Placeholder("No assessment data available")


\* C18: provided every generation call settles, every request to either
\* endpoint gets a response; the response is a 204 (OPTIONS), 400, 200 or 500;
\* at most five generation calls are made; and once the response is sent it
\* is never replaced and no further call is made.
C18_OneResponse ==
  /\ []((pc = "done") <=> (res # NoResponse))
  /\ [](res # NoResponse => res.status \in {204, 400, 200, 500})
  /\ []((pc = "done" /\ req.method = "OPTIONS") <=> (res.status = 204))
  /\ [](Len(calls) <= 5 /\ Len(results) <= Len(calls))
  /\ [][res # NoResponse => (res' = res /\ calls' = calls /\ results' = results)]_vars
  /\ (handler # "none") ~> (pc = "done")

\* a request answered after the fifth generation call
C18_Witness ==
  /\ pc = "done"
  /\ Len(calls) = 5
  /\ Len(results) = 5
  /\ res.status = 200
  /\ res.model = "fallback"


\* what an invocation of handler h on body b comes to when it runs on its
\* own and its generation calls settle with outs: its locals, position,
\* response
RECURSIVE Alone(_, _, _)
Alone(h, b, outs) ==
  LET dash == h = "getDashboardPrompt"
  IN  IF outs = << >>
      THEN IF dash /\ ~BodyIsObject(b)
           THEN [ frame |-> NoFrame, pc |-> "done",
                  res |-> Response400("Invalid request body") ]
           ELSE IF ~dash /\ SummaryInvalid(b)
           THEN [ frame |-> NoFrame, pc |-> "done",
                  res |-> Response400("Invalid request body: Expected analyses and prioritizedVirtues arrays.") ]
           ELSE [ frame |-> [ NoFrame EXCEPT !.idx = 1 ], pc |-> "await",
                  res |-> NoResponse ]
      ELSE LET before == Alone(h, b, SubSeq(outs, 1, Len(outs) - 1))
               o == outs[Len(outs)]
               f == before.frame
               a == IF dash THEN DashboardAttempt(o) ELSE SummaryAttempt(o)
               fallback == IF dash THEN DashboardFallback(b.fields)
                                   ELSE SummaryFallback(b.fields)
           IN  IF a.caught /\ f.idx < Len(StatedOrder)
               THEN [ frame |-> [ f EXCEPT !.lastError = RaisedError(a.error, f.idx),
                                           !.idx = f.idx + 1 ],
                      pc |-> "await", res |-> NoResponse ]
               ELSE IF a.caught
               THEN [ frame |-> [ f EXCEPT !.lastError = RaisedError(a.error, f.idx),
                                           !.text = fallback ],
                      pc |-> "done",
                      res |-> [ status |-> 200, text |-> fallback, model |-> "fallback",
                                success |-> TRUE, error |-> "" ] ]
               ELSE LET final == IF Truthy(a.text) THEN a.text ELSE fallback
                    IN  [ frame |-> [ f EXCEPT !.successfulModel = StatedOrder[f.idx],
                                               !.text = final ],
                          pc |-> "done",
                          res |-> [ status |-> 200, text |-> final,
                                    model |-> StatedOrder[f.idx],
                                    success |-> TRUE, error |-> "" ] ]

\* C14: with several invocations in progress and resumed in any order, the
\* position, locals (attempt counter, last error, chosen model, text) and
\* response of each are those of the same invocation running on its own with
\* the same body and the same outcomes of its own generation calls; and a
\* step of one invocation leaves every other invocation's locals and
\* response as they are.
C14_Independent ==
  /\ [](\A r \in Requests :
          reqs[r].handler # "none" =>
            LET alone == Alone(reqs[r].handler, reqs[r].body, reqs[r].outcomes)
            IN  /\ reqs[r].pc = alone.pc
                /\ reqs[r].res = alone.res
                /\ frames[r] = alone.frame)
  /\ [][\A r \in Requests :
          (reqs'[r] # reqs[r] \/ frames'[r] # frames[r]) =>
            \A q \in Requests \ {r} : reqs'[q] = reqs[q] /\ frames'[q] = frames[q]]_vars

\* one invocation has been answered by the third candidate while another,
\* started before it and still in progress, is suspended at its fourth call
C14_Witness ==
  /\ reqs[1].pc = "await"
  /\ reqs[1].handler = "getSummaryAnalysis"
  /\ frames[1].idx = 4
  /\ reqs[2].pc = "done"
  /\ reqs[2].handler = "getDashboardPrompt"
  /\ Len(reqs[2].outcomes) = 3
  /\ reqs[2].res.model = StatedOrder[3]
  /\ frames[1].lastError.attempt = 3
  /\ frames[2].lastError.attempt = 2

====
